---- MODULE Spec2Model ----
(***************************************************************************)
(* Model of gptme-rag's indexing pipeline: the Indexer over a vector       *)
(* collection (gptme_rag/indexing/indexer.py), the file watcher            *)
(* (gptme_rag/indexing/watcher.py) and the incremental `index` command     *)
(* (gptme_rag/cli.py).                                                     *)
(*                                                                         *)
(* Texts are token sequences over a small alphabet; the token codec is the *)
(* identity on them.  A path is a record [root, name]: root "w" is the     *)
(* real directory, root "l" a symlink to it, so that Path.resolve() and    *)
(* Path.absolute() differ.  mtimes are counted in microseconds, the        *)
(* resolution of the stored last_modified.                                 *)
(***************************************************************************)
EXTENDS Integers, Sequences, FiniteSets, TLC

\* ---------------------------------------------------------------- bounds
MaxLen == 3          \* longest file content, in tokens
MaxClock == 2        \* number of filesystem operations in a behaviour

\* ----------------------------------------------------- program constants
chunk_size == 2              \* Indexer(chunk_size=...), scaled to the alphabet
chunk_overlap == 1           \* Indexer(chunk_overlap=...), scaled
max_attempts == 3            \* watcher.py:94 and watcher.py:147
batch_size == 100            \* indexer.py:87 and indexer.py:157
moved_n_results == 100       \* watcher.py:82
default_n_results == 5       \* indexer.py:175
search_tuple_len == 2        \* indexer.py:233

Names == {"a.txt", "b.txt"}
\* A tree with a binary file, a compiled file and a name without suffix.
AdmitNames == {"a.txt", "c.bin", "d.pyc", "Makefile"}
AllNames == Names \cup AdmitNames
Roots == {"w", "l"}
Paths == [root : Roots, name : Names]
Seeds == {"seed1", "seed2"}     \* per-process hash seeds (PYTHONHASHSEED)

Min(a, b) == IF a < b THEN a ELSE b

\* File contents the environment writes: the non-empty token sequences
\* 1 2 1 2 .. of every length up to MaxLen (each a substring of the longer),
\* and one text of the greatest length, 3 4 3 .., sharing no token with them.
Alt(a, n) == [i \in 1..n |-> a + 2 - (i % 2)]
Contents == {Alt(0, n) : n \in 1..MaxLen} \cup {Alt(2, MaxLen)}

\* ------------------------------------------------------------ path algebra
\* Path.resolve(): absolute with symlinks resolved.
resolve(p) == [root |-> "w", name |-> p.name]
\* Path.absolute(): absolute, symlinks kept (every model path is absolute).
absolute(p) == p
\* Path.suffix
suffix(p) ==
    CASE p.name \in {"a.txt", "b.txt"} -> ".txt"
      [] p.name = "c.bin" -> ".bin"
      [] p.name = "d.pyc" -> ".pyc"
      [] OTHER -> ""

\* ------------------------------------------------------------ text helpers
\* Python's `s in t` on strings.
IsSubstring(s, t) ==
    \E i \in 0..(Len(t) - Len(s)) : SubSeq(t, i + 1, i + Len(s)) = s

\* DocumentProcessor.process_text: sliding window of chunk_size tokens
\* advancing by chunk_size - chunk_overlap; the last window holds the rest.
RECURSIVE ChunkFrom(_, _, _)
ChunkFrom(tokens, i, k) ==
    IF Len(tokens) = 0 THEN <<>>
    ELSE <<[chunk_index |-> k,
            text |-> SubSeq(tokens, i + 1, Min(i + chunk_size, Len(tokens)))]>>
         \o (IF i + chunk_size >= Len(tokens) THEN <<>>
             ELSE ChunkFrom(tokens, i + (chunk_size - chunk_overlap), k + 1))

process_text(tokens) == ChunkFrom(tokens, 0, 0)

\* Document.from_file(path, processor): one chunk document per window, all
\* carrying the canonical source and the file's mtime read once.
from_file(path, file) ==
    LET cs == process_text(file.content)
    IN  [k \in 1..Len(cs) |->
            [source_path |-> path,
             source |-> resolve(path),
             chunk_index |-> cs[k].chunk_index,
             text |-> cs[k].text,
             last_modified |-> file.mtime]]

\* ------------------------------------------------------------- the Indexer
\* str(hash(path.absolute())): Python salts str hashes per process, so the
\* value is a function of the absolute path and of the process's hash seed.
hash_path(p, s) == [path |-> absolute(p), seed |-> s]

\* An id made from the chunk's text as well, as add_document makes it.
doc_id_of_content(doc, s) ==
    [base |-> [path |-> doc.source_path, seed |-> s],
     chunk |-> <<doc.chunk_index, doc.text>>]

\* add_documents: the doc_id it assigns to a chunk document.
doc_id_of(doc, s) ==
    [base |-> hash_path(doc.source_path, s), chunk |-> doc.chunk_index]

\* doc_id.split("#chunk")[0]
base_of(id) == id.base

\* The stored record of a chunk document.
record_of(doc, s) ==
    [id |-> doc_id_of(doc, s), source |-> doc.source,
     chunk_index |-> doc.chunk_index, text |-> doc.text,
     last_modified |-> doc.last_modified]

\* collection.add(documents, metadatas, ids): a record whose id is already
\* stored is overwritten.
collection_add(c, recs) ==
    {r \in c : \A n \in recs : n.id # r.id} \cup recs

\* Number of collection.add calls add_documents makes for n documents.
add_calls(n) == (n + batch_size - 1) \div batch_size

\* add_documents(documents): the documents are taken as one list d, ids
\* assigned, one add per batch of batch_size.
add_documents(c, docs, s) ==
    UNION {collection_add(c, {record_of(d[k], s) : k \in 1..Len(d)}) :
              d \in {docs}}

\* index_file(path): chunk the file and add the chunks.
index_file(c, path, file, s) == add_documents(c, from_file(path, file), s)

\* delete_documents(where): drop every record matching the metadata filter.
delete_documents(c, where_source) == {r \in c : r.source # where_source}

\* collection.delete(ids=[doc_id]) then collection.delete(where source=doc_id):
\* the second filter compares the source path with a doc_id.
delete_document(c, id) ==
    {r \in c : r.id # id /\ r.source # id}

\* Records a query with this `where` filter can return.
matching(c, where_source) == {r \in c : r.source = where_source}

\* The nearest record to a query text: the embedder is opaque, except that a
\* record whose text equals the query is at distance zero.
nearest(q, recs) ==
    IF \E r \in recs : r.text = q THEN {r \in recs : r.text = q} ELSE recs

\* verify_document(path, content): the possible verdicts.  The probe is the
\* content as passed; the top grouped hit under source = canonical path must
\* contain it.
verify_document(c, path, content) ==
    LET hits == matching(c, resolve(path))
    IN  IF hits = {} THEN {FALSE}
        ELSE {IsSubstring(content, r.text) : r \in nearest(content, hits)}

\* The grouped branch of search: the hits are grouped by base id, the first
\* n_results groups are kept and each contributes its nearest chunk.  The
\* result is one record per group; which one is the embedder's choice.
grouped_hits(hits, n) ==
    LET bases == {base_of(r.id) : r \in hits}
        picks == {f \in [bases -> hits] : \A b \in bases : base_of(f[b].id) = b}
    IN  IF Cardinality(bases) <= n
        THEN {{f[b] : b \in bases} : f \in picks}
        ELSE UNION {{{f[b] : b \in kept} : f \in picks} :
                        kept \in {k \in SUBSET bases : Cardinality(k) = n}}

\* on_moved, first half: search the old absolute path and delete_document
\* every returned doc_id.
RECURSIVE delete_each(_, _)
delete_each(c, docs) ==
    IF docs = {} THEN c
    ELSE LET d == CHOOSE x \in docs : TRUE
         IN  delete_each(delete_document(c, d.id), docs \ {d})

moved_remove_old(c, src) ==
    {delete_each(c, docs) :
        docs \in grouped_hits(matching(c, absolute(src)), moved_n_results)}

\* --------------------------------------------------------------- the state
VARIABLES
    files,      \* the filesystem: name -> [exists, content, mtime, origin, prev]
    clock,      \* filesystem time, one tick per filesystem operation
    coll,       \* the vector collection: a set of chunk records
    seed,       \* the running process's hash seed
    root,       \* the root the watched directory was given by
    limit,      \* the number of filesystem operations the environment performs
    watching,   \* the observer is started
    queue,      \* the observer's event queue
    pending,    \* IndexEventHandler._pending_updates
    h,          \* per dispatch thread: the event callback's position and locals
    log,        \* collection calls issued by the operation in progress
    dirty,      \* the tree changed since the last index run
    last,       \* what the last index run did
    api         \* the last call of an Indexer method: arguments and result

vars == <<files, clock, coll, seed, root, limit, watching, queue, pending, h,
          log, dirty, last, api>>

NoCall == [op |-> "none"]

NoText == <<0>>
Absent == [exists |-> FALSE, dir |-> FALSE, content |-> <<>>, mtime |-> 0,
           origin |-> "none", prev |-> NoText]
APath == [root |-> "w", name |-> "a.txt"]
NoEvent == [type |-> "none", src |-> APath, dst |-> APath, late |-> FALSE,
            is_directory |-> FALSE]

NoRun == [op |-> "none", rerun |-> FALSE, adds |-> 0, changed |-> FALSE]

\* A second observer thread dispatching to the same handler.
TwoObserverThreads == {"observer", "observer2"}

\* FileWatcher.__init__: one Observer, whose single thread runs the callbacks.
ObserverThreads == {"observer"}

Idle == [pc |-> "idle", ev |-> NoEvent, existing |-> {}, updates |-> <<>>,
         processed |-> {}, content |-> <<>>, attempt |-> 0, before |-> {},
         indexed |-> Absent]

file_at(p) == files[p.name]
exists(p) == file_at(p).exists
\* Path.is_file()
is_file(p) == file_at(p).exists /\ ~file_at(p).dir

\* IndexEventHandler._should_process: the path matches `pattern` ("**/*.*")
\* and none of the ignore patterns (".git", "__pycache__", "*.pyc").
_should_process(p) ==
    /\ suffix(p) # ""
    /\ p.name \notin {".git", "__pycache__"}
    /\ suffix(p) # ".pyc"

\* IndexEventHandler._should_skip_file
_should_skip_file(p, processed_paths) ==
    \/ resolve(p) \in processed_paths
    \/ ~is_file(p)
    \/ suffix(p) \in {".sqlite3", ".db", ".bin", ".pyc"}

\* FileWatcher.start on an empty directory: reset_collection, nothing to
\* index, observer started.
Init ==
    /\ files = [n \in Names |-> Absent]
    /\ clock = 0
    /\ coll = {}
    /\ seed = "seed1"
    /\ root \in Roots
    /\ limit = MaxClock
    /\ watching = TRUE
    /\ queue = <<>>
    /\ pending = {}
    /\ h = [t \in ObserverThreads |-> Idle]
    /\ log = <<>>
    /\ dirty = TRUE
    /\ last = NoRun
    /\ api = NoCall

\* ---------------------------------------------------------- the filesystem
event_path(n) == [root |-> root, name |-> n]

\* The observer's emitter thread queues an event while the watcher runs.
\* `late` records that the path was already in _pending_updates on arrival.
emit(type, src, dst, is_directory) ==
    IF watching
    THEN Append(queue, [type |-> type, src |-> src, dst |-> dst,
                        late |-> src \in pending,
                        is_directory |-> is_directory])
    ELSE queue

can_emit == clock < limit

\* A program writes content c to file n (creating or overwriting it).
FsWrite(n, c) ==
    /\ can_emit
    /\ n \in DOMAIN files
    /\ ~files[n].dir
    /\ clock' = clock + 1
    /\ files' = [files EXCEPT ![n] =
                    [exists |-> TRUE, dir |-> FALSE, content |-> c,
                     mtime |-> clock + 1,
                     origin |-> "write",
                     prev |-> IF files[n].exists THEN files[n].content ELSE NoText]]
    /\ queue' = emit(IF files[n].exists THEN "modified" ELSE "created",
                     event_path(n), event_path(n), FALSE)
    /\ dirty' = TRUE
    /\ UNCHANGED <<api, last, coll, seed, root, limit, watching, pending, h, log>>

\* A program removes file n.
FsDelete(n) ==
    /\ can_emit
    /\ n \in DOMAIN files
    /\ files[n].exists
    /\ clock' = clock + 1
    /\ files' = [files EXCEPT ![n] = Absent]
    /\ queue' = emit("deleted", event_path(n), event_path(n), files[n].dir)
    /\ dirty' = TRUE
    /\ UNCHANGED <<api, last, coll, seed, root, limit, watching, pending, h, log>>

\* A program renames file n to m; a rename keeps the file's mtime.
FsMove(n, m) ==
    /\ can_emit
    /\ n # m
    /\ n \in DOMAIN files /\ m \in DOMAIN files
    /\ files[n].exists
    /\ clock' = clock + 1
    /\ files' = [files EXCEPT ![n] = Absent,
                              ![m] = [files[n] EXCEPT !.origin = "move",
                                                      !.prev = NoText]]
    /\ queue' = emit("moved", event_path(n), event_path(m), files[n].dir)
    /\ dirty' = TRUE
    /\ UNCHANGED <<api, last, coll, seed, root, limit, watching, pending, h, log>>

\* A program creates the directory n.
FsMkdir(n) ==
    /\ can_emit
    /\ n \in DOMAIN files
    /\ ~files[n].exists
    /\ clock' = clock + 1
    /\ files' = [files EXCEPT ![n] =
                    [Absent EXCEPT !.exists = TRUE, !.dir = TRUE,
                                   !.mtime = clock + 1, !.origin = "mkdir"]]
    /\ queue' = emit("created", event_path(n), event_path(n), TRUE)
    /\ dirty' = TRUE
    /\ UNCHANGED <<api, last, coll, seed, root, limit, watching, pending, h, log>>

\* ------------------------------------------------- the watcher's callbacks
\* on_created / on_modified, up to the debounce sleep of _queue_update.
OnCreatedOrModified(t) ==
    /\ watching
    /\ h[t].pc = "idle"
    /\ queue # <<>>
    /\ Head(queue).type \in {"created", "modified"}
    /\ queue' = Tail(queue)
    /\ IF ~Head(queue).is_directory /\ _should_process(Head(queue).src)
       THEN /\ pending' = pending \cup {Head(queue).src}
            /\ h' = [h EXCEPT ![t] = [Idle EXCEPT !.pc = "sleep",
                                                  !.ev = Head(queue)]]
       ELSE UNCHANGED <<api, pending, h>>
    /\ UNCHANGED <<api, dirty, last, files, clock, coll, seed, root, limit, watching, log>>

\* on_deleted: logs the deletion.
OnDeleted(t) ==
    /\ watching
    /\ h[t].pc = "idle"
    /\ queue # <<>>
    /\ Head(queue).type = "deleted"
    /\ queue' = Tail(queue)
    /\ h' = [h EXCEPT ![t] = [Idle EXCEPT !.pc = "deleted", !.ev = Head(queue)]]
    /\ UNCHANGED <<api, dirty, last, files, clock, coll, seed, root, limit, watching, pending, log>>

\* on_moved, first half: remove the old path's documents.
OnMoved(t) ==
    /\ watching
    /\ h[t].pc = "idle"
    /\ queue # <<>>
    /\ Head(queue).type = "moved"
    /\ queue' = Tail(queue)
    /\ IF ~Head(queue).is_directory /\ _should_process(Head(queue).src)
       THEN \E c \in moved_remove_old(coll, Head(queue).src) : coll' = c
       ELSE coll' = coll
    /\ h' = [h EXCEPT ![t] = [Idle EXCEPT !.pc = "moved_src", !.ev = Head(queue)]]
    /\ log' = <<>>
    /\ UNCHANGED <<api, dirty, last, files, clock, seed, root, limit, watching, pending>>

\* An on_moved that indexes the new path of every file, admitted or not.
moved_indexes_any(ev) == ~ev.is_directory

\* on_moved indexes the new path: the event is no directory's and the
\* destination is admitted.
moved_indexes(ev) == ~ev.is_directory /\ _should_process(ev.dst)

\* The callback of on_deleted or on_moved returns (on_moved at once when the
\* destination is not to be indexed).
Return(t) ==
    /\ h[t].pc \in {"deleted", "moved_done"}
          \cup (IF moved_indexes(h[t].ev) THEN {} ELSE {"moved_src"})
    /\ h' = [h EXCEPT ![t] = Idle]
    /\ log' = <<>>
    /\ UNCHANGED <<api, dirty, last, files, clock, coll, seed, root, limit, watching, queue, pending>>

\* on_moved's verification: `results, _, _ = search(content[:50])` unpacks
\* three values from the tuple search returns, then looks for a hit whose
\* source is the destination's absolute path.
moved_verified(c, dst) ==
    IF search_tuple_len # 3 THEN {FALSE}
    ELSE {\E d \in docs : d.source = absolute(dst) :
            docs \in grouped_hits(c, default_n_results)}

\* One log entry per collection call and source (a file without chunks
\* causes no add).  `newer` tells that the file indexed is newer than a chunk
\* stored for its source.
newer_than(recs, file) == \E r \in recs : r.last_modified < file.mtime
log_add(l, p, recs) ==
    IF process_text(file_at(p).content) = <<>> THEN l
    ELSE Append(l, [kind |-> "add", source |-> resolve(p),
                    newer |-> newer_than(recs, file_at(p))])

\* on_moved, second half: one pass of the read / index / verify loop.
MovedAttempt(t) ==
    /\ h[t].pc \in {"moved_src", "moved"}
    /\ moved_indexes(h[t].ev)
    /\ LET dst == h[t].ev.dst
           final == h[t].attempt = max_attempts - 1
       IN  IF ~is_file(dst)
           THEN \* read_text raises
                /\ h' = [h EXCEPT ![t] =
                            IF final THEN [@ EXCEPT !.pc = "moved_done"]
                            ELSE [@ EXCEPT !.pc = "moved", !.attempt = @ + 1]]
                /\ UNCHANGED <<api, coll, log>>
           ELSE /\ coll' = index_file(coll, absolute(dst), file_at(dst), seed)
                /\ log' = log_add(log, dst, matching(coll, resolve(dst)))
                /\ \E ok \in moved_verified(coll', dst) :
                      h' = [h EXCEPT ![t] =
                              IF ok \/ final THEN [@ EXCEPT !.pc = "moved_done"]
                              ELSE [@ EXCEPT !.pc = "moved", !.attempt = @ + 1]]
    /\ UNCHANGED <<api, dirty, last, files, clock, seed, root, limit, watching, queue, pending>>

\* A sort that may return the paths in any order.
orders_any(ps) ==
    {f \in [1..Cardinality(ps) -> ps] :
        \A i, j \in 1..Cardinality(ps) : f[i] = f[j] => i = j}

\* sorted(existing_updates, key=mtime, reverse=True): the orders sorted can
\* return for a set of paths.
RECURSIVE orders(_)
orders(ps) ==
    IF ps = {} THEN {<<>>}
    ELSE UNION {{<<p>> \o rest : rest \in orders(ps \ {p})} :
                  p \in {q \in ps : \A o \in ps : file_at(o).mtime <= file_at(q).mtime}}

\* _queue_update after its sleep: _process_updates up to the sort.  With no
\* pending path left on disk it returns before the set is cleared.
ProcessUpdates(t) ==
    /\ h[t].pc = "sleep"
    /\ LET existing_updates == {p \in pending : exists(p)}
       IN  IF existing_updates = {}
           THEN h' = [h EXCEPT ![t] = Idle]
           ELSE h' = [h EXCEPT ![t] = [@ EXCEPT !.pc = "sort",
                                               !.existing = existing_updates]]
    /\ UNCHANGED <<api, dirty, last, files, clock, coll, seed, root, limit, watching, queue, pending, log>>

\* _process_updates: sorted(existing_updates, key=p.stat().st_mtime), outside
\* any try.  stat() of a path that has vanished since the exists() test
\* raises; the exception leaves _process_updates, _queue_update and the
\* callback, and ends the observer's dispatch thread, which catches nothing
\* but an empty queue.
SortUpdates(t) ==
    /\ h[t].pc = "sort"
    /\ IF \E p \in h[t].existing : ~exists(p)
       THEN h' = [h EXCEPT ![t] = [@ EXCEPT !.pc = "escaped"]]
       ELSE \E updates \in orders(h[t].existing) :
               h' = [h EXCEPT ![t] = [@ EXCEPT !.pc = "single",
                                               !.existing = {},
                                               !.updates = updates,
                                               !.processed = {}]]
    /\ UNCHANGED <<api, dirty, last, files, clock, coll, seed, root, limit, watching, queue, pending, log>>

\* _process_single_update up to the call of _update_index_with_retries: the
\* skip test, the settle sleep, exists() and read_text().
ProcessSingle(t) ==
    /\ h[t].pc = "single"
    /\ h[t].updates # <<>>
    /\ LET path == Head(h[t].updates)
       IN  IF _should_skip_file(path, h[t].processed)
           THEN h' = [h EXCEPT ![t].updates = Tail(@)]
           ELSE h' = [h EXCEPT ![t] = [@ EXCEPT !.pc = "delete",
                                               !.content = file_at(path).content]]
    /\ UNCHANGED <<api, dirty, last, files, clock, coll, seed, root, limit, watching, queue, pending, log>>

\* The where clause _update_index_with_retries deletes by.
update_where(path) == resolve(path)

\* _update_index_with_retries: delete the old versions.
DeleteOld(t) ==
    /\ h[t].pc = "delete"
    /\ LET path == Head(h[t].updates)
       IN  /\ coll' = delete_documents(coll, update_where(path))
           /\ h' = [h EXCEPT ![t] = [@ EXCEPT !.pc = "index", !.attempt = 0,
                                             !.before = matching(coll, resolve(path))]]
           /\ log' = <<[kind |-> "delete", source |-> update_where(path),
                        newer |-> FALSE]>>
    /\ UNCHANGED <<api, dirty, last, files, clock, seed, root, limit, watching, queue, pending>>

\* _update_index_with_retries: index_file(path).  A file that has vanished
\* makes it raise into _process_single_update's handler.
IndexAttempt(t) ==
    /\ h[t].pc = "index"
    /\ LET path == Head(h[t].updates)
       IN  IF ~is_file(path)
           THEN /\ h' = [h EXCEPT ![t] = [@ EXCEPT !.pc = "error"]]
                /\ UNCHANGED <<api, coll, log>>
           ELSE /\ coll' = index_file(coll, path, file_at(path), seed)
                /\ log' = log_add(log, path, h[t].before)
                /\ h' = [h EXCEPT ![t] = [@ EXCEPT !.pc = "verify",
                                                  !.indexed = file_at(path)]]
    /\ UNCHANGED <<api, dirty, last, files, clock, seed, root, limit, watching, queue, pending>>

\* _update_index_with_retries: verify_document, then success, retry or give up.
VerifyAttempt(t) ==
    /\ h[t].pc = "verify"
    /\ LET path == Head(h[t].updates)
       IN  \E ok \in verify_document(coll, path, h[t].content) :
              h' = [h EXCEPT ![t] =
                      IF ok THEN [@ EXCEPT !.pc = "verified"]
                      ELSE IF h[t].attempt < max_attempts - 1
                           THEN [@ EXCEPT !.pc = "index", !.attempt = @ + 1]
                           ELSE [@ EXCEPT !.pc = "failed"]]
    /\ UNCHANGED <<api, dirty, last, files, clock, coll, seed, root, limit, watching, queue, pending, log>>

\* _process_single_update returns: a verified path joins processed_paths.
NextUpdate(t) ==
    /\ h[t].pc \in {"verified", "failed", "error"}
    /\ h' = [h EXCEPT ![t] =
               [@ EXCEPT !.pc = "single",
                         !.processed = IF h[t].pc = "verified"
                                       THEN @ \cup {resolve(Head(h[t].updates))}
                                       ELSE @,
                         !.updates = Tail(@),
                         !.content = <<>>, !.attempt = 0,
                         !.before = {}, !.indexed = Absent]]
    /\ UNCHANGED <<api, dirty, last, files, clock, coll, seed, root, limit, watching, queue, pending, log>>

\* _process_updates after the loop: clear the pending set; the callback returns.
FinishUpdates(t) ==
    /\ h[t].pc = "single"
    /\ h[t].updates = <<>>
    /\ pending' = {}
    /\ h' = [h EXCEPT ![t] = Idle]
    /\ log' = <<>>
    /\ UNCHANGED <<api, dirty, last, files, clock, coll, seed, root, limit, watching, queue>>

Handler(t) ==
    \/ OnCreatedOrModified(t)
    \/ OnDeleted(t)
    \/ OnMoved(t)
    \/ Return(t)
    \/ MovedAttempt(t)
    \/ ProcessUpdates(t)
    \/ SortUpdates(t)
    \/ ProcessSingle(t)
    \/ DeleteOld(t)
    \/ IndexAttempt(t)
    \/ VerifyAttempt(t)
    \/ NextUpdate(t)
    \/ FinishUpdates(t)

Filesystem ==
    \/ \E n \in AllNames, c \in Contents : FsWrite(n, c)
    \/ \E n \in AllNames : FsDelete(n)
    \/ \E n, m \in AllNames : FsMove(n, m)

Next ==
    \/ Filesystem
    \/ \E t \in ObserverThreads : Handler(t)

Spec == Init /\ [][Next]_vars

\* ------------------------------------------------ index runs, main thread
canonical(n) == [root |-> "w", name |-> n]

\* The chunk documents of a set of paths, file by file.
RECURSIVE docs_of(_)
docs_of(ps) ==
    IF ps = {} THEN <<>>
    ELSE LET p == CHOOSE x \in ps : TRUE
         IN  from_file(p, file_at(p)) \o docs_of(ps \ {p})

\* One "add" log entry per path indexed.
RECURSIVE log_adds(_, _)
log_adds(ps, c) ==
    IF ps = {} THEN <<>>
    ELSE LET p == CHOOSE x \in ps : TRUE
         IN  log_add(log_adds(ps \ {p}, c), p, matching(c, resolve(p)))

\* index_directory: the files it keeps, found under the resolved directory.
valid_files ==
    {canonical(n) : n \in {m \in DOMAIN files :
        /\ is_file(canonical(m))
        /\ suffix(canonical(m)) \notin {".sqlite3", ".db"}}}

\* Indexer.index_directory(directory): every valid file is chunked and its
\* chunks are added, batch by batch.
IndexDirectory ==
    /\ ~watching
    /\ LET docs == docs_of(valid_files)
       IN  /\ coll' = add_documents(coll, docs, seed)
           /\ log' = log_adds(valid_files, coll)
           /\ last' = [op |-> "index_directory",
                       rerun |-> ~dirty /\ last.op = "index_directory",
                       adds |-> add_calls(Len(docs)),
                       changed |-> coll' # coll]
    /\ dirty' = FALSE
    /\ UNCHANGED <<api, files, clock, seed, root, limit, watching, queue, pending, h>>

\* The `index` command's filter: a file is indexed when its source is not in
\* the index or its mtime exceeds the stored one.  existing_files keeps, per
\* source, the last_modified of the record read last.
cli_selected(stored) ==
    {p \in {[root |-> root, name |-> n] : n \in {m \in DOMAIN files : is_file(canonical(m))}} :
        \/ resolve(p) \notin DOMAIN stored
        \/ file_at(p).mtime > stored[resolve(p)]}

\* The `index` command, a process of its own: read the stored mtimes, collect
\* the documents, keep the new and modified ones, add them.
CliIndex(s) ==
    /\ ~watching
    /\ \E stored \in [{r.source : r \in coll} -> {r.last_modified : r \in coll}] :
          /\ \A src \in DOMAIN stored :
                \E r \in matching(coll, src) : r.last_modified = stored[src]
          /\ LET docs == docs_of(cli_selected(stored))
             IN  /\ coll' = add_documents(coll, docs, s)
                 /\ log' = log_adds(cli_selected(stored), coll)
                 /\ last' = [op |-> "cli_index",
                             rerun |-> ~dirty /\ last.op = "cli_index",
                             adds |-> add_calls(Len(docs)),
                             changed |-> coll' # coll]
    /\ seed' = s
    /\ dirty' = FALSE
    /\ UNCHANGED <<api, files, clock, root, limit, watching, queue, pending, h>>

\* The program using the Indexer is started again: a new hash seed.
NewProcess(s) ==
    /\ ~watching
    /\ s # seed
    /\ seed' = s
    /\ UNCHANGED <<api, files, clock, coll, root, limit, watching, queue, pending, h, log,
                   dirty, last>>

\* No watcher: the collection is filled by index runs only.
InitIndex ==
    /\ files = [n \in Names |-> Absent]
    /\ clock = 0
    /\ coll = {}
    /\ seed = "seed1"
    /\ root \in Roots
    /\ limit = MaxClock
    /\ watching = FALSE
    /\ queue = <<>>
    /\ pending = {}
    /\ h = [t \in ObserverThreads |-> Idle]
    /\ log = <<>>
    /\ dirty = TRUE
    /\ last = NoRun
    /\ api = NoCall

NextIndex ==
    \/ Filesystem
    \/ IndexDirectory
    \/ \E s \in Seeds : CliIndex(s)
    \/ \E s \in Seeds : NewProcess(s)

SpecIndex == InitIndex /\ [][NextIndex]_vars

\* The watcher with one more filesystem operation in its environment.
InitRace ==
    /\ files = [n \in Names |-> Absent]
    /\ clock = 0
    /\ coll = {}
    /\ seed = "seed1"
    /\ root \in Roots
    /\ limit = MaxClock + 1
    /\ watching = TRUE
    /\ queue = <<>>
    /\ pending = {}
    /\ h = [t \in ObserverThreads |-> Idle]
    /\ log = <<>>
    /\ dirty = TRUE
    /\ last = NoRun
    /\ api = NoCall

SpecRace == InitRace /\ [][Next]_vars

\* The watcher on a tree whose names include a binary file, a compiled file,
\* a name without suffix, and directories.
InitAdmit ==
    /\ files = [n \in AdmitNames |-> Absent]
    /\ clock = 0
    /\ coll = {}
    /\ seed = "seed1"
    /\ root = "w"
    /\ limit = MaxClock
    /\ watching = TRUE
    /\ queue = <<>>
    /\ pending = {}
    /\ h = [t \in ObserverThreads |-> Idle]
    /\ log = <<>>
    /\ dirty = TRUE
    /\ last = NoRun
    /\ api = NoCall

NextAdmit ==
    \/ Filesystem
    \/ \E n \in AdmitNames : FsMkdir(n)
    \/ \E t \in ObserverThreads : Handler(t)

SpecAdmit == InitAdmit /\ [][NextAdmit]_vars

\* The observer thread runs a callback to its end whenever an event is queued.
FairSpec == SpecRace /\ WF_vars(\E t \in ObserverThreads : Handler(t))

\* ------------------------------------------------------------ the claims
\* What is stored for a source, and what a file version should store.
stored_chunks(c, src) ==
    {[chunk_index |-> r.chunk_index, text |-> r.text,
      last_modified |-> r.last_modified] : r \in matching(c, src)}

expected_chunks(file) ==
    LET cs == process_text(file.content)
    IN  {[chunk_index |-> cs[k].chunk_index, text |-> cs[k].text,
          last_modified |-> file.mtime] : k \in 1..Len(cs)}

\* The path a thread's Processing run is working on.
run_path(t) == resolve(Head(h[t].updates))
in_run(t) == h[t].pc \in {"delete", "index", "verify"}

\* C1: when an update run ends Verified, the collection holds for the file
\* exactly the chunks of the version index_file read, one record per chunk,
\* and nothing of an earlier version.
C1_VerifiedHoldsExactlyCurrentChunks ==
    \A t \in ObserverThreads :
        h[t].pc = "verified" =>
            /\ stored_chunks(coll, run_path(t)) = expected_chunks(h[t].indexed)
            /\ Cardinality(matching(coll, run_path(t)))
                 = Len(process_text(h[t].indexed.content))

\* C3: once on_moved has removed the old path (src admitted, delivered as a
\* canonical path), no chunk of src is left, whatever its number of chunks.
C3_MovedLeavesNoSourceChunk ==
    \A t \in ObserverThreads :
        (/\ h[t].pc = "moved_src"
         /\ ~h[t].ev.is_directory
         /\ _should_process(h[t].ev.src)
         /\ absolute(h[t].ev.src) = resolve(h[t].ev.src))
            => matching(coll, resolve(h[t].ev.src)) = {}

\* C4: once a deleted event for an admitted path is handled, no chunk of
\* that path is left.
C4_DeletedLeavesNoChunk ==
    \A t \in ObserverThreads :
        (h[t].pc = "deleted" /\ _should_process(h[t].ev.src))
            => matching(coll, resolve(h[t].ev.src)) = {}

\* C8: an event that arrived while its path was already pending collapses
\* into the pending transition: no Processing run is started for it.
C8_LateEventStartsNoRun ==
    \A t \in ObserverThreads : in_run(t) => ~h[t].ev.late

\* C9: at most one Processing run (update run or on_moved's loop) is active
\* for a canonical path.
active_on(t) ==
    IF in_run(t) THEN {run_path(t)}
    ELSE IF h[t].pc = "moved" THEN {resolve(h[t].ev.dst)}
    ELSE {}

C9_SingleWriterPerPath ==
    \A p \in Paths :
        Cardinality({t \in ObserverThreads : p \in active_on(t)}) <= 1

\* C9 witness: a run is active for a path while another event for the same
\* path waits in the queue.
C9_Witness ==
    \E t \in ObserverThreads : \E i \in DOMAIN queue :
        /\ in_run(t)
        /\ queue[i].type \in {"created", "modified", "moved"}
        /\ resolve(queue[i].dst) = run_path(t)

\* C10: a run that ends Failed leaves the file's stored chunks as they were
\* before the run.
C10_FailedRunLeavesChunks ==
    \A t \in ObserverThreads :
        h[t].pc = "failed" => matching(coll, run_path(t)) = h[t].before

\* The watcher has nothing left to do.
settled == queue = <<>> /\ \A t \in ObserverThreads : h[t].pc = "idle"
written == {n \in DOMAIN files : files[n].exists /\ files[n].origin = "write"}

consistent(n) ==
    stored_chunks(coll, [root |-> "w", name |-> n]) = expected_chunks(files[n])

\* C2: once the filesystem is quiet the watcher brings the collection, for
\* every written file, to exactly the chunks of its new content (so that a
\* search for the new content can return the file).
C2_EventuallyConsistent ==
    <>[](\A n \in written : consistent(n))

\* C5: an index run repeated on an unchanged tree issues no add and leaves
\* the collection as it was.
C5_RerunAddsNothing ==
    last.rerun => (last.adds = 0 /\ ~last.changed)

\* C6: the doc_id is a function of the canonical source path and the chunk
\* index: the same chunk of the same version of a file, ingested under its
\* canonical path, is never stored under two ids, whichever run or process
\* ingested it.
C6_SameChunkSameId ==
    \A r1, r2 \in coll :
        (/\ base_of(r1.id).path = r1.source
         /\ base_of(r2.id).path = r2.source
         /\ r1.source = r2.source
         /\ r1.chunk_index = r2.chunk_index
         /\ r1.last_modified = r2.last_modified) => r1.id = r2.id

\* C7: an add that re-indexes a file newer than its stored chunks comes
\* after a delete of the chunks of its source, in the same operation.
C7_DeleteBeforeAdd ==
    \A i \in DOMAIN log :
        (log[i].kind = "add" /\ log[i].newer) =>
            \E j \in 1..(i - 1) :
                log[j].kind = "delete" /\ log[j].source = log[i].source

\* C11: no exception raised while the watcher handles a path leaves the
\* event-handler callback: the observer thread never ends in an escaped
\* exception (and so goes on to process the rest of the batch).
C11_NoExceptionEscapes ==
    \A t \in ObserverThreads : h[t].pc # "escaped"

\* The records a step adds to or removes from the collection.
mutated(c1, c2) == (c1 \ c2) \cup (c2 \ c1)

\* C12: a step changes the collection only for sources that are admitted by
\* the pattern and the ignore patterns, and only inside the callback of an
\* event that is not a directory event; events on other paths and on
\* directories leave the collection as it was.
C12_OnlyAdmittedPathsMutate ==
    [][\A r \in mutated(coll, coll') :
          /\ _should_process(r.source)
          /\ \E t \in ObserverThreads :
                h'[t].pc # "idle" /\ ~h'[t].ev.is_directory]_vars

\* C12 witness: events on a not admitted file and on an admitted one have
\* both been handled; only the admitted file has chunks.
C12_Witness ==
    /\ settled
    /\ \E n \in written :
          /\ ~_should_process(canonical(n))
          /\ stored_chunks(coll, canonical(n)) = {}
    /\ \E n \in written :
          /\ _should_process(canonical(n))
          /\ consistent(n)

\* C13: no chunk in the collection has a source with a binary or database
\* suffix.
C13_NoBinarySourceStored ==
    \A r \in coll : suffix(r.source) \notin {".sqlite3", ".db", ".bin", ".pyc"}

\* ------------------------------------------------ calls of Indexer methods
MaxDist == 2
MaxResults == 2

Range(s) == {s[i] : i \in DOMAIN s}

\* A file as a program wrote it.
file_of(c) ==
    [Absent EXCEPT !.exists = TRUE, !.content = c, !.mtime = 1,
                   !.origin = "write"]

\* An index built by index_directory over a tree of text files; no watcher.
InitApi ==
    /\ files \in [Names -> {Absent} \cup {file_of(c) : c \in Contents}]
    /\ clock = 1
    /\ seed = "seed1"
    /\ coll = add_documents({}, docs_of(valid_files), seed)
    /\ root = "w"
    /\ limit = MaxClock
    /\ watching = FALSE
    /\ queue = <<>>
    /\ pending = {}
    /\ h = [t \in ObserverThreads |-> Idle]
    /\ log = <<>>
    /\ dirty = FALSE
    /\ last = NoRun
    /\ api = NoCall

\* collection.query(query_texts, n_results, where): the records that pass
\* the filter, nearest first, at most n_results of them, each with its
\* distance.  The embedder is opaque: any order of the records is possible,
\* with any distances that do not decrease along it.
NoWhere == [filtered |-> FALSE, source |-> APath]
where_source(p) == [filtered |-> TRUE, source |-> p]
passing(c, where) ==
    IF where.filtered THEN matching(c, where.source) ELSE c

RECURSIVE arrangements(_, _)
arrangements(recs, m) ==
    IF m = 0 THEN {<<>>}
    ELSE UNION {{<<r>> \o q : q \in arrangements(recs \ {r}, m - 1)} :
                   r \in recs}

RECURSIVE ascending(_, _)
ascending(m, least) ==
    IF m = 0 THEN {<<>>}
    ELSE UNION {{<<v>> \o d : d \in ascending(m - 1, v)} :
                   v \in least..MaxDist}

collection_query(c, n_results, where) ==
    LET recs == passing(c, where)
        m == Min(n_results, Cardinality(recs))
    IN  {[ids |-> [i \in 1..m |-> q[i].id], documents |-> q, distances |-> d] :
            q \in arrangements(recs, m), d \in ascending(m, 0)}

\* A grouping that opens a group for every result.
every_key(ids, i) == [k \in 1..Len(ids) |-> base_of(ids[k])]

\* The keys of doc_groups in insertion order: the source ids
\* doc_id.split("#chunk")[0] in order of first appearance.
RECURSIVE group_keys(_, _)
group_keys(ids, i) ==
    IF i > Len(ids) THEN <<>>
    ELSE IF \E j \in 1..(i - 1) : base_of(ids[j]) = base_of(ids[i])
         THEN group_keys(ids, i + 1)
         ELSE <<base_of(ids[i])>> \o group_keys(ids, i + 1)

\* doc_groups[source_id]: the (doc, distance) tuples of the group, built
\* from the results before any distance is overwritten.
RECURSIVE group_of(_, _, _)
group_of(results, source_id, i) ==
    IF i > Len(results.ids) THEN <<>>
    ELSE (IF base_of(results.ids[i]) = source_id
          THEN <<[doc |-> results.documents[i],
                  distance |-> results.distances[i]]>>
          ELSE <<>>) \o group_of(results, source_id, i + 1)

\* min(source_docs, key=lambda x: x[1]): the first tuple of least distance.
best_of(source_docs) ==
    source_docs[CHOOSE i \in DOMAIN source_docs :
        /\ \A j \in DOMAIN source_docs :
              source_docs[i].distance <= source_docs[j].distance
        /\ \A j \in 1..(i - 1) :
              source_docs[j].distance > source_docs[i].distance]

\* A grouped search that leaves the distances list as the store returned it.
keep_distance(distances, k, best_distance) == distances

\* distances[len(documents) - 1] = best_distance
store_distance(distances, k, best_distance) ==
    [distances EXCEPT ![k] = best_distance]

\* The loop over list(doc_groups.values())[:n_results]: append the best
\* document of each group and overwrite the distance at its position.
RECURSIVE take_best(_, _, _, _, _)
take_best(results, keys, g, documents, distances) ==
    IF g > Len(keys) THEN [documents |-> documents, distances |-> distances]
    ELSE LET best == best_of(group_of(results, keys[g], 1))
             docs == Append(documents, best.doc)
         IN  take_best(results, keys, g + 1, docs,
                       store_distance(distances, Len(docs), best.distance))

\* A grouped search that returns a chunk of every group.
all_groups(keys, n_results) == keys

\* list(doc_groups.values())[:n_results]
kept_groups(keys, n_results) == SubSeq(keys, 1, Min(n_results, Len(keys)))

\* Indexer.search on what the store returned for its query.
search_results(results, n_results, group_chunks) ==
    LET keys == group_keys(results.ids, 1)
        out == IF group_chunks
               THEN take_best(results, kept_groups(keys, n_results),
                              1, <<>>, results.distances)
               ELSE [documents |-> SubSeq(results.documents, 1,
                                          Min(n_results, Len(results.ids))),
                     distances |-> results.distances]
    IN  [documents |-> out.documents,
         distances |-> SubSeq(out.distances, 1, Len(out.documents))]

\* Indexer.search(query, n_results, where, group_chunks): the store is asked
\* for three times n_results when grouping.
Search(n_results, where, group_chunks) ==
    /\ api.op = "none"
    /\ \E results \in collection_query(coll,
                        IF group_chunks THEN n_results * 3 ELSE n_results,
                        where) :
          api' = [op |-> "search", n_results |-> n_results,
                  where |-> where, group_chunks |-> group_chunks,
                  results |-> results,
                  out |-> search_results(results, n_results, group_chunks)]
    /\ UNCHANGED <<files, clock, coll, seed, root, limit, watching, queue,
                   pending, h, log, dirty, last>>

NextSearch ==
    \E n_results \in 1..MaxResults, group_chunks \in BOOLEAN,
       where \in {NoWhere} \cup {where_source(canonical(n)) : n \in Names} :
        Search(n_results, where, group_chunks)

SpecSearch == InitApi /\ [][NextSearch]_vars

\* C14: a grouped search returns no two chunks that share a base id.
C14_GroupedResultsDistinctBase ==
    (api.op = "search" /\ api.group_chunks) =>
        \A i, j \in DOMAIN api.out.documents :
            base_of(api.out.documents[i].id) = base_of(api.out.documents[j].id)
                => i = j

\* C14 witness: the store returned two chunks of one document and a chunk
\* of another; the grouped search returned one chunk of each document.
C14_Witness ==
    /\ api.op = "search" /\ api.group_chunks
    /\ \E i, j \in DOMAIN api.results.ids :
          i # j /\ base_of(api.results.ids[i]) = base_of(api.results.ids[j])
    /\ Len(api.out.documents) = 2

\* The distance the store reported for a chunk it returned.
reported(results, doc) ==
    results.distances[CHOOSE k \in DOMAIN results.ids : results.ids[k] = doc.id]

\* C15: the distances returned are as many as the chunks returned, and the
\* distance at each position is the one the store reported for the chunk at
\* that position.
C15_DistancesAligned ==
    api.op = "search" =>
        /\ Len(api.out.distances) = Len(api.out.documents)
        /\ \A i \in DOMAIN api.out.documents :
              api.out.distances[i] = reported(api.results, api.out.documents[i])

\* C15 witness: a grouped search returned, at its second position, a chunk
\* the store had reported at a later position and another distance.
C15_Witness ==
    /\ api.op = "search" /\ api.group_chunks
    /\ Len(api.out.documents) = 2
    /\ api.out.documents[2] # api.results.documents[2]
    /\ reported(api.results, api.out.documents[2]) # api.results.distances[2]

\* ------------------------------------------------ search with path filters
\* A source with its directory, as the tests' tree has them:
\* project/docs/guide.md, project/docs/api/ref.md, project/src/main.py,
\* project/src/notes.md.
Tree ==
    {[dir |-> <<"project", "docs">>, stem |-> "guide", ext |-> ".md"],
     [dir |-> <<"project", "docs", "api">>, stem |-> "ref", ext |-> ".md"],
     [dir |-> <<"project", "src">>, stem |-> "main", ext |-> ".py"],
     [dir |-> <<"project", "src">>, stem |-> "notes", ext |-> ".md"]}

SearchPaths == {<<"project", "docs">>, <<"project", "src">>}

\* "*.md", "*.py" and "docs/*.md".
PathFilters ==
    {[anchored |-> FALSE, dir |-> "", ext |-> ".md"],
     [anchored |-> FALSE, dir |-> "", ext |-> ".py"],
     [anchored |-> TRUE, dir |-> "docs", ext |-> ".md"]}

\* The one-chunk record index_file stores for a source of the tree.
record_at(src) ==
    record_of([source_path |-> src, source |-> src, chunk_index |-> 0,
               text |-> <<1>>, last_modified |-> 1], "seed1")

\* The source lies under the directory path.
descendant(source, path) ==
    /\ Len(path) <= Len(source.dir)
    /\ SubSeq(source.dir, 1, Len(path)) = path

\* The source glob-matches the filter: a bare-extension filter matches any
\* path with that ending, an anchored one also fixes the parent directory.
glob_match(source, filter) ==
    /\ source.ext = filter.ext
    /\ filter.anchored => source.dir[Len(source.dir)] = filter.dir

\* A filter test that accepts a document on either condition.
matches_either(doc, paths, path_filters) ==
    \/ paths = {} \/ \E path \in paths : descendant(doc.source, path)
    \/ path_filters = {} \/ \E f \in path_filters : glob_match(doc.source, f)

\* PathFilter matches(doc, paths, path_filters).
matches(doc, paths, path_filters) ==
    /\ paths = {} \/ \E path \in paths : descendant(doc.source, path)
    /\ path_filters = {} \/ \E f \in path_filters : glob_match(doc.source, f)

\* The filter applied to what the store returned, position by position.
RECURSIVE kept_positions(_, _, _, _)
kept_positions(results, paths, path_filters, i) ==
    IF i > Len(results.ids) THEN <<>>
    ELSE (IF matches(results.documents[i], paths, path_filters)
          THEN <<i>> ELSE <<>>)
         \o kept_positions(results, paths, path_filters, i + 1)

filter_results(results, paths, path_filters) ==
    LET kept == kept_positions(results, paths, path_filters, 1)
    IN  [ids |-> [k \in DOMAIN kept |-> results.ids[kept[k]]],
         documents |-> [k \in DOMAIN kept |-> results.documents[kept[k]]],
         distances |-> [k \in DOMAIN kept |-> results.distances[kept[k]]]]

\* An index of the whole tree.
InitFilter ==
    /\ files = [n \in Names |-> Absent]
    /\ clock = 1
    /\ seed = "seed1"
    /\ coll = {record_at(src) : src \in Tree}
    /\ root = "w"
    /\ limit = MaxClock
    /\ watching = FALSE
    /\ queue = <<>>
    /\ pending = {}
    /\ h = [t \in ObserverThreads |-> Idle]
    /\ log = <<>>
    /\ dirty = FALSE
    /\ last = NoRun
    /\ api = NoCall

\* search(query, n_results, group_chunks, paths, path_filters): the filter
\* is applied to the results of the query.
SearchFiltered(n_results, group_chunks, paths, path_filters) ==
    /\ api.op = "none"
    /\ \E results \in collection_query(coll,
                        IF group_chunks THEN n_results * 3 ELSE n_results,
                        NoWhere) :
          api' = [op |-> "search", n_results |-> n_results,
                  group_chunks |-> group_chunks,
                  paths |-> paths, path_filters |-> path_filters,
                  results |-> results,
                  out |-> search_results(
                             filter_results(results, paths, path_filters),
                             n_results, group_chunks)]
    /\ UNCHANGED <<files, clock, coll, seed, root, limit, watching, queue,
                   pending, h, log, dirty, last>>

NextFilter ==
    \E n_results \in 1..MaxResults, group_chunks \in BOOLEAN,
       paths \in SUBSET SearchPaths, path_filters \in SUBSET PathFilters :
        SearchFiltered(n_results, group_chunks, paths, path_filters)

SpecFilter == InitFilter /\ [][NextFilter]_vars

\* C16: a search with path_filters returns only chunks whose source
\* glob-matches one of the filters, a search with paths only chunks whose
\* source lies under one of the paths; an empty argument excludes nothing.
C16_FilterSoundness ==
    api.op = "search" =>
        \A i \in DOMAIN api.out.documents :
            LET source == api.out.documents[i].source
            IN  /\ api.path_filters # {} =>
                      \E f \in api.path_filters : glob_match(source, f)
                /\ api.paths # {} =>
                      \E path \in api.paths : descendant(source, path)

\* C16 witness: a search with a path and a filter returned a chunk, and the
\* store had returned a chunk under the path that the filter rejects and a
\* chunk the filter accepts outside the path.
C16_Witness ==
    /\ api.op = "search"
    /\ api.paths # {} /\ api.path_filters # {}
    /\ api.out.documents # <<>>
    /\ \E i, j \in DOMAIN api.results.documents :
          LET si == api.results.documents[i].source
              sj == api.results.documents[j].source
          IN  /\ \E path \in api.paths : descendant(si, path)
              /\ \A f \in api.path_filters : ~glob_match(si, f)
              /\ \E f \in api.path_filters : glob_match(sj, f)
              /\ \A path \in api.paths : ~descendant(sj, path)

\* ------------------------------------- chunks of a document, reconstruction
\* chunks.sort(key=chunk_index): the records in ascending chunk_index, those
\* of equal index in the store's order.
sorted_chunks(recs) ==
    {q \in arrangements(recs, Cardinality(recs)) :
        \A i \in 1..(Len(q) - 1) : q[i].chunk_index <= q[i + 1].chunk_index}

\* get_document_chunks(doc_id): collection.get(where={"source": doc_id})
\* compares the source metadata, a path, with the doc_id given.
get_document_chunks(c, doc_id) == sorted_chunks(matching(c, doc_id))

\* "\n".join(chunk.content for chunk in chunks); the newline is token 0.
RECURSIVE join(_)
join(chunks) ==
    IF chunks = <<>> THEN <<>>
    ELSE IF Len(chunks) = 1 THEN chunks[1].text
    ELSE chunks[1].text \o <<0>> \o join(Tail(chunks))

\* The keys of a stored chunk's metadata, and those reconstruct_document
\* pops from the first chunk's metadata.
metadata_keys(r) == {"source", "last_modified", "chunk_index"}
chunk_keys ==
    {"chunk_index", "token_count", "is_chunk", "chunk_start", "chunk_end"}

\* reconstruct_document(doc_id): ValueError when no chunk is found; else a
\* document with the doc_id given and the first chunk's metadata without
\* the chunk-specific keys.
reconstruct_document(c, doc_id) ==
    {IF chunks = <<>>
     THEN [raised |-> TRUE, content |-> <<>>, doc_id |-> doc_id,
           metadata |-> {}]
     ELSE [raised |-> FALSE, content |-> join(chunks), doc_id |-> doc_id,
           metadata |-> metadata_keys(chunks[1]) \ chunk_keys] :
        chunks \in get_document_chunks(c, doc_id)}

\* The arguments a caller has at hand: the base id of a chunk it got from a
\* search, or the chunk's source path.
doc_ids(c) == {base_of(r.id) : r \in c} \cup {r.source : r \in c}

GetDocumentChunks(doc_id) ==
    /\ api.op = "none"
    /\ \E chunks \in get_document_chunks(coll, doc_id) :
          api' = [op |-> "get_document_chunks", doc_id |-> doc_id,
                  chunks |-> chunks]
    /\ UNCHANGED <<files, clock, coll, seed, root, limit, watching, queue,
                   pending, h, log, dirty, last>>

ReconstructDocument(doc_id) ==
    /\ api.op = "none"
    /\ \E document \in reconstruct_document(coll, doc_id) :
          api' = [op |-> "reconstruct_document", doc_id |-> doc_id,
                  raised |-> document.raised, content |-> document.content,
                  document |-> [doc_id |-> document.doc_id,
                                metadata |-> document.metadata]]
    /\ UNCHANGED <<files, clock, coll, seed, root, limit, watching, queue,
                   pending, h, log, dirty, last>>

NextChunks ==
    \/ \E doc_id \in doc_ids(coll) : GetDocumentChunks(doc_id)
    \/ \E doc_id \in doc_ids(coll) : ReconstructDocument(doc_id)

SpecChunks == InitApi /\ [][NextChunks]_vars

\* The chunks stored under a base id.
chunks_of(c, base_id) == {r \in c : base_of(r.id) = base_id}

\* C17: called with the base id of an indexed chunk, get_document_chunks
\* returns all the chunks of that document, each with an id of that base,
\* in ascending chunk_index, the indices being 0, 1, 2, ... without a gap.
C17_AllChunksInOrder ==
    (api.op = "get_document_chunks" /\ chunks_of(coll, api.doc_id) # {}) =>
        /\ Range(api.chunks) = chunks_of(coll, api.doc_id)
        /\ \A i \in DOMAIN api.chunks : api.chunks[i].chunk_index = i - 1

\* The file a base id was derived from.
file_of_base(base_id) == file_at(base_id.path)

\* C18: for the base id of an indexed file, reconstruct_document returns a
\* document whose content contains the file's content.
C18_ReconstructionContainsContent ==
    (api.op = "reconstruct_document" /\ chunks_of(coll, api.doc_id) # {}) =>
        /\ ~api.raised
        /\ IsSubstring(file_of_base(api.doc_id).content, api.content)

\* --------------------------------------------------------- delete_document
\* collection.delete(ids=[doc_id])
delete_ids(c, doc_id) == {r \in c : r.id # doc_id}

\* delete_document(doc_id) when the store raises in some of its two deletes:
\* an exception of the first leaves the outer try, one of the second is
\* logged as a warning and the function goes on to return True.
DeleteDocument(doc_id, raises_ids, raises_where) ==
    /\ api.op = "none"
    /\ coll' = IF raises_ids THEN coll
               ELSE IF raises_where THEN delete_ids(coll, doc_id)
               ELSE delete_document(coll, doc_id)
    /\ api' = [op |-> "delete_document", doc_id |-> doc_id,
               raises_ids |-> raises_ids,
               raises_where |-> ~raises_ids /\ raises_where,
               result |-> ~raises_ids]
    /\ UNCHANGED <<files, clock, seed, root, limit, watching, queue,
                   pending, h, log, dirty, last>>

NextDelete ==
    \E doc_id \in {r.id : r \in coll} \cup doc_ids(coll),
       raises_ids, raises_where \in BOOLEAN :
        DeleteDocument(doc_id, raises_ids, raises_where)

SpecDelete == InitApi /\ [][NextDelete]_vars

\* C19: delete_document returns true only if neither of its two deletes
\* raised, and false if either did.
C19_SuccessOnlyIfBothPhases ==
    api.op = "delete_document" =>
        (api.result <=> (~api.raises_ids /\ ~api.raises_where))

\* --------------------------------------------------------- verify_document
MaxRetries == 3

\* verify_document(path, content, retries): before the loop.
VerifyDocument(path, content, retries) ==
    /\ api.op = "none"
    /\ api' = [op |-> "verify_document", path |-> path,
               search_content |-> content, retries |-> retries,
               outcomes |-> <<>>, done |-> FALSE, result |-> FALSE,
               escaped |-> FALSE]
    /\ UNCHANGED <<files, clock, coll, seed, root, limit, watching, queue,
                   pending, h, log, dirty, last>>

\* A verify_document whose search exception leaves the function.
propagate(call) == [call EXCEPT !.done = TRUE, !.escaped = TRUE]

\* except Exception: the attempt is logged as failed and the loop goes on.
attempt_failed(call) == [call EXCEPT !.outcomes = Append(@, "raised")]

\* One pass of the loop: the search raises, or its top hit under the source
\* filter contains the probe (return True), or it does not (sleep, go on).
VerifySearch ==
    /\ api.op = "verify_document"
    /\ ~api.done
    /\ Len(api.outcomes) < api.retries
    /\ \/ api' = attempt_failed(api)
       \/ \E hit \in verify_document(coll, api.path, api.search_content) :
             api' = IF hit
                    THEN [api EXCEPT !.outcomes = Append(@, "hit"),
                                     !.done = TRUE, !.result = TRUE]
                    ELSE [api EXCEPT !.outcomes = Append(@, "miss")]
    /\ UNCHANGED <<files, clock, coll, seed, root, limit, watching, queue,
                   pending, h, log, dirty, last>>

\* The loop is exhausted: return False.
VerifyFailed ==
    /\ api.op = "verify_document"
    /\ ~api.done
    /\ Len(api.outcomes) = api.retries
    /\ api' = [api EXCEPT !.done = TRUE, !.result = FALSE]
    /\ UNCHANGED <<files, clock, coll, seed, root, limit, watching, queue,
                   pending, h, log, dirty, last>>

NextVerify ==
    \/ \E n \in Names, content \in Contents, retries \in 0..MaxRetries :
          VerifyDocument(canonical(n), content, retries)
    \/ VerifySearch
    \/ VerifyFailed

SpecVerify == InitApi /\ [][NextVerify]_vars

MaxTokens == 6
MaxSize == 3

\* A text of n tokens; each token is its position, so that a window tells
\* which tokens it holds.
text_of(n) == [i \in 1..n |-> i]

\* The configuration is valid: chunk_overlap < chunk_size.
valid_config(size, overlap) == overlap < size

\* A window that takes one token more than chunk_size.
window_end_wide(i, size, n) == Min(i + size + 1, n)

\* tokens[i : i + size] ends at the end of the tokens at the latest.
window_end(i, size, n) == Min(i + size, n)

\* A chunker that goes on until its window starts at the last token.
last_window_late(i, size, n) == i >= n - 1

\* Stop when i + chunk_size >= len(tokens).
last_window(i, size, n) == i + size >= n

\* A chunker that advances by chunk_size.
next_start_no_overlap(i, size, overlap) == i + size

\* Advance i by chunk_size - chunk_overlap.
next_start(i, size, overlap) == i + (size - overlap)

\* The sliding window over the tokens from offset i on, chunk k first: emit
\* the window, advance, stop once the window reaches the end of the tokens.
\* Empty input gives no chunk.
RECURSIVE window_from(_, _, _, _, _)
window_from(tokens, size, overlap, i, k) ==
    IF Len(tokens) = 0 THEN <<>>
    ELSE <<[chunk_index |-> k,
            text |-> SubSeq(tokens, i + 1, window_end(i, size, Len(tokens))),
            token_count |-> window_end(i, size, Len(tokens)) - i,
            chunk_start |-> i]>>
         \o (IF last_window(i, size, Len(tokens)) THEN <<>>
             ELSE window_from(tokens, size, overlap,
                              next_start(i, size, overlap), k + 1))

\* A chunker that runs whatever its configuration; at chunk_overlap >=
\* chunk_size it emits the first window only.
chunk_unchecked(tokens, size, overlap) ==
    [raised |-> FALSE,
     chunks |-> IF valid_config(size, overlap)
                THEN window_from(tokens, size, overlap, 0, 0)
                ELSE window_from(SubSeq(tokens, 1, Min(size, Len(tokens))),
                                 size, 0, 0, 0)]

\* The chunker on a text: a configuration with chunk_overlap >= chunk_size
\* is rejected with a configuration error.
chunk_text(tokens, size, overlap) ==
    IF valid_config(size, overlap)
    THEN [raised |-> FALSE, chunks |-> window_from(tokens, size, overlap, 0, 0)]
    ELSE [raised |-> TRUE, chunks |-> <<>>]

\* estimate_chunks(token_count): the number of chunks the chunker emits for
\* that many tokens; ValueError under an invalid configuration.
estimate_chunks(token_count, size, overlap) ==
    IF valid_config(size, overlap)
    THEN [raised |-> FALSE,
          chunks |-> Len(window_from(text_of(token_count), size, overlap, 0, 0))]
    ELSE [raised |-> TRUE, chunks |-> 0]

\* DocumentProcessor(chunk_size, chunk_overlap) is built, on its own or by
\* Indexer.__init__, without a test of the configuration.
InitChunker ==
    /\ files = [n \in Names |-> Absent]
    /\ clock = 0
    /\ seed = "seed1"
    /\ coll = {}
    /\ root = "w"
    /\ limit = MaxClock
    /\ watching = FALSE
    /\ queue = <<>>
    /\ pending = {}
    /\ h = [t \in ObserverThreads |-> Idle]
    /\ log = <<>>
    /\ dirty = FALSE
    /\ last = NoRun
    /\ api = NoCall

ProcessText(n, size, overlap) ==
    /\ api.op = "none"
    /\ api' = [op |-> "process_text", tokens |-> text_of(n),
               chunk_size |-> size, chunk_overlap |-> overlap,
               raised |-> chunk_text(text_of(n), size, overlap).raised,
               chunks |-> chunk_text(text_of(n), size, overlap).chunks]
    /\ UNCHANGED <<files, clock, coll, seed, root, limit, watching, queue,
                   pending, h, log, dirty, last>>

EstimateChunks(n, size, overlap) ==
    /\ api.op = "none"
    /\ api' = [op |-> "estimate_chunks", token_count |-> n,
               chunk_size |-> size, chunk_overlap |-> overlap,
               raised |-> estimate_chunks(n, size, overlap).raised,
               chunks |-> estimate_chunks(n, size, overlap).chunks]
    /\ UNCHANGED <<files, clock, coll, seed, root, limit, watching, queue,
                   pending, h, log, dirty, last>>

\* A processor that ignores max_chunks.
truncate_none(chunks, max_chunks) == chunks

\* With max_chunks set, the chunks after the first max_chunks are left out.
truncate(chunks, max_chunks) ==
    SubSeq(chunks, 1, Min(max_chunks, Len(chunks)))

\* process_text of a DocumentProcessor built with max_chunks.
ProcessTextMaxChunks(n, size, overlap, max_chunks) ==
    /\ api.op = "none"
    /\ api' = [op |-> "process_text_max_chunks", tokens |-> text_of(n),
               chunk_size |-> size, chunk_overlap |-> overlap,
               max_chunks |-> max_chunks,
               raised |-> chunk_text(text_of(n), size, overlap).raised,
               chunks |-> truncate(chunk_text(text_of(n), size, overlap).chunks,
                                   max_chunks)]
    /\ UNCHANGED <<files, clock, coll, seed, root, limit, watching, queue,
                   pending, h, log, dirty, last>>

NextChunker ==
    \/ \E n \in 0..MaxTokens, size \in 1..MaxSize, overlap \in 0..MaxSize :
          ProcessText(n, size, overlap)
    \/ \E n \in 0..MaxTokens, size \in 1..MaxSize, overlap \in 0..MaxSize :
          EstimateChunks(n, size, overlap)
    \/ \E n \in 0..MaxTokens, size \in 1..MaxSize, overlap \in 0..MaxSize,
          max_chunks \in 1..MaxSize :
          ProcessTextMaxChunks(n, size, overlap, max_chunks)

SpecChunker == InitChunker /\ [][NextChunker]_vars

chunked == api.op = "process_text" /\ ~api.raised

\* C21: under a valid configuration every chunk emitted has a token_count,
\* the number of its tokens, of at most chunk_size.
C21_TokenBound ==
    chunked =>
        \A k \in DOMAIN api.chunks :
            /\ api.chunks[k].token_count = Len(api.chunks[k].text)
            /\ api.chunks[k].token_count <= api.chunk_size

\* C21 witness: a text longer than chunk_size was cut into several chunks,
\* the last one shorter than chunk_size.
C21_Witness ==
    /\ chunked
    /\ Len(api.tokens) > api.chunk_size
    /\ Len(api.chunks) >= 3
    /\ api.chunks[Len(api.chunks)].token_count < api.chunk_size

\* ceil(a / b) for b > 0.
ceil_div(a, b) == -((-a) \div b)

\* A chunk holds a token the previous chunk does not hold.
progress(chunks) ==
    \A k \in 2..Len(chunks) :
        \E tok \in Range(chunks[k].text) : tok \notin Range(chunks[k - 1].text)

\* C22 as claimed: a text of N >= 1 tokens yields exactly
\* ceil((N - overlap) / (size - overlap)) chunks, and every chunk after the
\* first holds a token the previous one does not.
C22_ChunkCount ==
    (chunked /\ Len(api.tokens) >= 1) =>
        /\ Len(api.chunks) = ceil_div(Len(api.tokens) - api.chunk_overlap,
                                      api.chunk_size - api.chunk_overlap)
        /\ progress(api.chunks)

\* C22 as amended: the count is ceil((N - overlap) / (size - overlap)) for
\* N > overlap and one for 1 <= N <= overlap; every chunk after the first
\* holds a token the previous one does not.
C22_ChunkCountAmended ==
    (chunked /\ Len(api.tokens) >= 1) =>
        /\ Len(api.chunks) =
              IF Len(api.tokens) > api.chunk_overlap
              THEN ceil_div(Len(api.tokens) - api.chunk_overlap,
                            api.chunk_size - api.chunk_overlap)
              ELSE 1
        /\ progress(api.chunks)

\* C22 witness: a text of no more tokens than the overlap gave one chunk.
C22_Witness ==
    /\ chunked
    /\ Len(api.tokens) >= 1
    /\ Len(api.tokens) <= api.chunk_overlap
    /\ Len(api.chunks) = 1

\* The tokens two chunks share.
shared(c1, c2) == Range(c1.text) \cap Range(c2.text)

\* C23: chunk k is the window that starts at k * (chunk_size -
\* chunk_overlap) and is at most chunk_size long; the chunk_index values are
\* 0, 1, 2, ... in order; consecutive chunks share exactly chunk_overlap
\* tokens; every token of the text is in some chunk.
C23_WindowsCoverText ==
    chunked =>
        /\ \A k \in DOMAIN api.chunks :
              LET start == (k - 1) * (api.chunk_size - api.chunk_overlap)
              IN  /\ api.chunks[k].chunk_index = k - 1
                  /\ Len(api.chunks[k].text) <= api.chunk_size
                  /\ api.chunks[k].text # <<>>
                  /\ api.chunks[k].text =
                        SubSeq(api.tokens, start + 1,
                               start + Len(api.chunks[k].text))
        /\ \A k \in 2..Len(api.chunks) :
              Cardinality(shared(api.chunks[k - 1], api.chunks[k]))
                  = api.chunk_overlap
        /\ UNION {Range(api.chunks[k].text) : k \in DOMAIN api.chunks}
              = Range(api.tokens)

\* C23 witness: three chunks or more with an overlap of two tokens.
C23_Witness ==
    /\ chunked
    /\ api.chunk_overlap = 2
    /\ Len(api.chunks) >= 3

MaxBudget == 4

\* The chunk lists given to the assembler: each chunk stands for the number
\* of tokens it takes once wrapped with its source metadata.
ChunkLists == UNION {[1..n -> 1..MaxSize] : n \in 0..MaxSize}

\* An assembler that takes every chunk.
fits_always(total, cost, max_tokens) == TRUE

\* Adding the chunk does not exceed max_tokens.
fits(total, cost, max_tokens) == total + cost <= max_tokens

\* Greedy pack in input order from chunk k on: a chunk that fits is
\* included, one that does not is dropped and sets truncated.
RECURSIVE pack(_, _, _, _)
pack(chunks, k, max_tokens, acc) ==
    IF k > Len(chunks) THEN acc
    ELSE IF fits(acc.total_tokens, chunks[k], max_tokens)
         THEN pack(chunks, k + 1, max_tokens,
                   [acc EXCEPT !.documents = Append(@, k),
                               !.total_tokens = @ + chunks[k]])
         ELSE pack(chunks, k + 1, max_tokens, [acc EXCEPT !.truncated = TRUE])

\* assemble(chunks, system_prompt, user_query): the system prompt first,
\* always included, then the chunks, then the user query.  A prompt or a
\* query of zero tokens is one not given.  The content is the list of its
\* parts.
assemble(chunks, system_prompt, user_query, max_tokens) ==
    LET packed == pack(chunks, 1, max_tokens,
                       [documents |-> <<>>, total_tokens |-> system_prompt,
                        truncated |-> FALSE])
    IN  [documents |-> packed.documents,
         total_tokens |-> packed.total_tokens + user_query,
         truncated |-> packed.truncated,
         content |-> (IF system_prompt > 0 THEN <<"system_prompt">> ELSE <<>>)
                     \o [i \in DOMAIN packed.documents |-> "chunk"]
                     \o (IF user_query > 0 THEN <<"user_query">> ELSE <<>>)]

Assemble(chunks, system_prompt, user_query, max_tokens) ==
    /\ api.op = "none"
    /\ api' = [op |-> "assemble", chunks |-> chunks,
               system_prompt |-> system_prompt, user_query |-> user_query,
               max_tokens |-> max_tokens,
               context |-> assemble(chunks, system_prompt, user_query,
                                    max_tokens)]
    /\ UNCHANGED <<files, clock, coll, seed, root, limit, watching, queue,
                   pending, h, log, dirty, last>>

NextAssemble ==
    /\ api.op = "none"
    /\ \E chunks \in ChunkLists, system_prompt \in 0..MaxSize,
          user_query \in 0..MaxSize, max_tokens \in 1..MaxBudget :
           Assemble(chunks, system_prompt, user_query, max_tokens)

SpecAssemble == InitChunker /\ [][NextAssemble]_vars

\* The tokens of the included chunks among the first k.
RECURSIVE included_tokens(_, _, _)
included_tokens(chunks, documents, k) ==
    IF k = 0 THEN 0
    ELSE included_tokens(chunks, documents, k - 1)
         + (IF k \in Range(documents) THEN chunks[k] ELSE 0)

\* A chunk is left out exactly when adding it to the system prompt and the
\* chunks included before it would exceed max_tokens, and truncated tells
\* that some chunk was left out.
dropped_iff_exceeds ==
    /\ \A k \in DOMAIN api.chunks :
          k \notin Range(api.context.documents) <=>
              api.system_prompt
                + included_tokens(api.chunks, api.context.documents, k - 1)
                + api.chunks[k] > api.max_tokens
    /\ api.context.truncated <=>
          \E k \in DOMAIN api.chunks : k \notin Range(api.context.documents)

\* C25 as claimed: whatever the chunks, the system prompt and the user
\* query, total_tokens is at most max_tokens; a chunk is left out, and
\* truncated set, exactly when adding it would exceed max_tokens; an empty
\* chunk list gives empty content, zero tokens and truncated false.
C25_BudgetRespected ==
    api.op = "assemble" =>
        /\ api.context.total_tokens <= api.max_tokens
        /\ dropped_iff_exceeds
        /\ api.chunks = <<>> =>
              /\ api.context.content = <<>>
              /\ api.context.total_tokens = 0
              /\ ~api.context.truncated

\* C25 as amended: total_tokens is the tokens of the system prompt, of the
\* included chunks and of the user query; the included chunks never take
\* the system prompt and themselves beyond max_tokens, so total_tokens is
\* at most max_tokens when no system prompt and no user query is given; a
\* chunk is left out, and truncated set, exactly when adding it would
\* exceed max_tokens; with no chunk, no system prompt and no user query the
\* content is empty, the tokens zero and truncated false.
C25_BudgetOfChunks ==
    api.op = "assemble" =>
        /\ api.context.total_tokens =
              api.system_prompt
                + included_tokens(api.chunks, api.context.documents,
                                  Len(api.chunks))
                + api.user_query
        /\ api.context.documents # <<>> =>
              api.context.total_tokens - api.user_query <= api.max_tokens
        /\ (api.system_prompt = 0 /\ api.user_query = 0) =>
              api.context.total_tokens <= api.max_tokens
        /\ dropped_iff_exceeds
        /\ (api.chunks = <<>> /\ api.system_prompt = 0 /\ api.user_query = 0) =>
              /\ api.context.content = <<>>
              /\ api.context.total_tokens = 0
              /\ ~api.context.truncated

\* C25 witness: with a system prompt and a user query given, a chunk was
\* dropped, a later and smaller one was included, and total_tokens is
\* beyond max_tokens by the user query.
C25_Witness ==
    /\ api.op = "assemble"
    /\ api.system_prompt > 0 /\ api.user_query > 0
    /\ api.context.truncated
    /\ \E j, k \in DOMAIN api.chunks :
          /\ j < k
          /\ j \notin Range(api.context.documents)
          /\ k \in Range(api.context.documents)
    /\ api.context.total_tokens > api.max_tokens

\* --------------------------------------------------- path canonicalisation
\* C26: paths are made absolute with symlinks resolved before they are used
\* as identity keys: within one process, the records of one file, whatever
\* path it was indexed under, have one source and one base_id, and that
\* base_id is made from the resolved path.
C26_OneFileOneIdentity ==
    \A r1, r2 \in coll :
        (r1.source = r2.source /\ base_of(r1.id).seed = base_of(r2.id).seed) =>
            /\ base_of(r1.id) = base_of(r2.id)
            /\ base_of(r1.id).path = resolve(base_of(r1.id).path)

\* ------------------------------------------------------- FileWatcher.stop
\* A join that returns without waiting for the dispatching thread.
observer_detached(t) == TRUE

\* The observer thread has ended: it is between two events, where it sees
\* the stop request, or an exception has ended it.
observer_ended(t) == h[t].pc \in {"idle", "escaped"}

\* stop(), first statement: observer.stop().  The emitter queues no event
\* any more and the dispatching thread takes none; a callback in progress
\* goes on.
Stop ==
    /\ watching
    /\ api.op = "none"
    /\ watching' = FALSE
    /\ api' = [op |-> "stop", returned |-> FALSE,
               busy |-> \E t \in ObserverThreads : ~observer_ended(t)]
    /\ UNCHANGED <<files, clock, coll, seed, root, limit, queue, pending, h,
                   log, dirty, last>>

\* stop(), second statement: observer.join() returns when the observer
\* thread has ended, and stop() returns.
Join ==
    /\ api.op = "stop"
    /\ ~api.returned
    /\ \A t \in ObserverThreads : observer_ended(t)
    /\ api' = [api EXCEPT !.returned = TRUE]
    /\ UNCHANGED <<files, clock, coll, seed, root, limit, watching, queue,
                   pending, h, log, dirty, last>>

NextStop ==
    \/ Next
    \/ Stop
    \/ Join

SpecStop == Init /\ [][NextStop]_vars

stopped == api.op = "stop" /\ api.returned

\* C27: after FileWatcher.stop() has returned the watcher adds nothing to
\* the collection and deletes nothing from it, and the events still queued
\* are never handled.
C27_NoMutationAfterStop ==
    [][stopped => (coll' = coll /\ queue' = queue /\ h' = h)]_vars

\* C27 witness: stop() was called while a callback was in progress and has
\* returned, with events left in the queue and documents in the collection.
C27_Witness ==
    /\ stopped
    /\ api.busy
    /\ queue # <<>>
    /\ coll # {}

\* ------------------------------------------------- add_documents, batches
MaxBatch == 3

\* A tree of text files and an empty collection; no watcher.
InitBatch ==
    /\ files \in [Names -> {Absent} \cup {file_of(c) : c \in Contents}]
    /\ clock = 1
    /\ seed = "seed1"
    /\ coll = {}
    /\ root = "w"
    /\ limit = MaxClock
    /\ watching = FALSE
    /\ queue = <<>>
    /\ pending = {}
    /\ h = [t \in ObserverThreads |-> Idle]
    /\ log = <<>>
    /\ dirty = FALSE
    /\ last = NoRun
    /\ api = NoCall

\* A store whose failing add leaves one record of the batch behind.
add_partly(c, recs) == collection_add(c, {CHOOSE r \in recs : TRUE})

\* collection.add raises: the store takes nothing of the call.
add_fails(c, recs) == c

\* add_documents(documents, batch_size), the while loop from `processed`
\* on: batch = documents[processed : processed + batch_size], one
\* collection.add per batch, processed += len(batch).  The add numbered
\* fail_at raises and the exception leaves the loop.
RECURSIVE add_batches(_, _, _, _, _, _, _)
add_batches(c, documents, size, processed, calls, fail_at, s) ==
    IF processed >= Len(documents)
    THEN [coll |-> c, raised |-> FALSE, calls |-> calls]
    ELSE LET batch == SubSeq(documents, processed + 1,
                             Min(processed + size, Len(documents)))
             recs == {record_of(batch[k], s) : k \in 1..Len(batch)}
         IN  IF calls + 1 = fail_at
             THEN [coll |-> add_fails(c, recs), raised |-> TRUE,
                   calls |-> calls + 1]
             ELSE add_batches(collection_add(c, recs), documents, size,
                              processed + Len(batch), calls + 1, fail_at, s)

\* Indexer.add_documents(documents, batch_size) on the chunks of the tree;
\* fail_at = 0 is a call in which no add raises.
AddDocuments(size, fail_at) ==
    /\ api.op = "none"
    /\ LET documents == docs_of(valid_files)
           out == add_batches(coll, documents, size, 0, 0, fail_at, seed)
       IN  /\ coll' = out.coll
           /\ api' = [op |-> "add_documents", documents |-> documents,
                      size |-> size, fail_at |-> fail_at,
                      raised |-> out.raised, calls |-> out.calls]
    /\ UNCHANGED <<files, clock, seed, root, limit, watching, queue, pending,
                   h, log, dirty, last>>

NextBatch ==
    /\ api.op = "none"
    /\ \E size \in 1..MaxBatch, fail_at \in 0..(2 * MaxLen) :
          AddDocuments(size, fail_at)

SpecBatch == InitBatch /\ [][NextBatch]_vars

\* The number of batches of n documents.
batches(n, size) == (n + size - 1) \div size

C29_BestChunkTieBySmallerIndex ==
    (api.op = "search" /\ api.group_chunks) =>
        \A i \in DOMAIN api.out.documents :
            \A k \in DOMAIN api.results.ids :
                base_of(api.results.ids[k]) = base_of(api.out.documents[i].id) =>
                    \/ api.results.distances[k]
                          > reported(api.results, api.out.documents[i])
                    \/ /\ api.results.distances[k]
                             = reported(api.results, api.out.documents[i])
                       /\ api.results.documents[k].chunk_index
                             >= api.out.documents[i].chunk_index

\* ------------------------------------------ search, result count and order
\* The position at which a group's first chunk appears in the results.
first_position(results, base_id) ==
    CHOOSE k \in DOMAIN results.ids :
        /\ base_of(results.ids[k]) = base_id
        /\ \A j \in 1..(k - 1) : base_of(results.ids[j]) # base_id

\* The base ids among the results.
bases(results) == {base_of(results.ids[k]) : k \in DOMAIN results.ids}

\* C30: the store is asked for 3 * n_results results when grouping and for
\* n_results otherwise.  A grouped search returns min(n_results, G) chunks
\* for G base ids among the results, the i-th of them a chunk of the i-th
\* group in order of first appearance; an ungrouped search returns the
\* first n_results results in the store's order.
C30_CountAndOrder ==
    api.op = "search" =>
        /\ Len(api.results.ids) =
              Min(IF api.group_chunks THEN 3 * api.n_results ELSE api.n_results,
                  Cardinality(passing(coll, api.where)))
        /\ api.group_chunks =>
              /\ Len(api.out.documents) =
                    Min(api.n_results, Cardinality(bases(api.results)))
              /\ \A i \in DOMAIN api.out.documents :
                    /\ base_of(api.out.documents[i].id) \in bases(api.results)
                    /\ Cardinality({b \in bases(api.results) :
                          first_position(api.results, b) <=
                              first_position(api.results,
                                  base_of(api.out.documents[i].id))}) = i
        /\ ~api.group_chunks =>
              /\ Len(api.out.documents) =
                    Min(api.n_results, Len(api.results.ids))
              /\ \A i \in DOMAIN api.out.documents :
                    api.out.documents[i] = api.results.documents[i]

\* C30 witness: a grouped search for one result fetched three chunks of two
\* documents and returned one chunk.
C30_Witness ==
    /\ api.op = "search" /\ api.group_chunks
    /\ api.n_results = 1
    /\ Len(api.results.ids) = 3
    /\ Cardinality(bases(api.results)) = 2
    /\ Len(api.out.documents) = 1

\* The chunk returned for a group has the least distance of the group.
group_minimum ==
    (api.op = "search" /\ api.group_chunks) =>
        \A i \in DOMAIN api.out.documents :
            \A k \in DOMAIN api.results.ids :
                base_of(api.results.ids[k]) = base_of(api.out.documents[i].id) =>
                    api.results.distances[k]
                        >= reported(api.results, api.out.documents[i])

\* ------------------------------------------- verification after an update
\* C31: verify_document probes with a prefix of the content that a chunk
\* can hold, so an update run does not end Failed for a file that did not
\* change during the run and whose chunks are all in the collection.
C31_StoredFileVerifies ==
    \A t \in ObserverThreads :
        (/\ h[t].pc = "failed"
         /\ h[t].content = h[t].indexed.content
         /\ expected_chunks(h[t].indexed) # {})
            => stored_chunks(coll, run_path(t)) # expected_chunks(h[t].indexed)

\* -------------------------------------------------- a batch of several paths
\* A watcher of the directory under both of its names, started on an empty
\* directory, whose pending set holds the paths of earlier events under the
\* other name: their files were gone when the debouncer fired, and
\* _process_updates returned before clearing the set.
InitPending ==
    /\ files = [n \in Names |-> Absent]
    /\ clock = 0
    /\ coll = {}
    /\ seed = "seed1"
    /\ root \in Roots
    /\ limit = MaxClock
    /\ watching = TRUE
    /\ queue = <<>>
    /\ pending \in SUBSET {p \in Paths : p.root # root}
    /\ h = [t \in ObserverThreads |-> Idle]
    /\ log = <<>>
    /\ dirty = TRUE
    /\ last = NoRun
    /\ api = NoCall

SpecPending == InitPending /\ [][Next]_vars

\* C32: the paths pending when the debouncer fires are taken newest mtime
\* first: the sort yields every pending path found on disk once, in order
\* of decreasing mtime, the paths are taken from the head of that list and
\* nowhere else, and no run is started for a path whose canonical path is
\* among those already processed successfully in the batch.
C32_NewestFirstOncePerPath ==
    [][\A t \in ObserverThreads :
          /\ (h[t].pc = "sort" /\ h'[t].pc = "single") =>
                /\ Range(h'[t].updates) = h[t].existing
                /\ Len(h'[t].updates) = Cardinality(Range(h'[t].updates))
                /\ \A i, j \in DOMAIN h'[t].updates :
                      i < j => file_at(h'[t].updates[i]).mtime
                                 >= file_at(h'[t].updates[j]).mtime
          /\ (h[t].pc \in {"single", "delete", "index", "verify", "verified",
                           "failed", "error"} /\ h'[t].pc # "idle") =>
                \/ h'[t].updates = h[t].updates
                \/ /\ h[t].updates # <<>>
                   /\ h'[t].updates = Tail(h[t].updates)
          /\ (h[t].pc = "single" /\ h'[t].pc = "delete") =>
                resolve(Head(h[t].updates)) \notin h[t].processed]_vars

\* C32 witness: in a batch of three pending paths the newest file was
\* processed first, and the path now at the head names, under the
\* directory's other name, an older file already processed successfully.
C32_Witness ==
    \E t \in ObserverThreads :
        /\ h[t].pc = "single"
        /\ h[t].updates # <<>>
        /\ Head(h[t].updates) \in pending
        /\ resolve(Head(h[t].updates)) \in h[t].processed
        /\ \E q \in h[t].processed :
              file_at(q).mtime > file_at(Head(h[t].updates)).mtime

\* ------------------------------------------------- on_moved, index attempts
\* C33: on_moved indexes the destination at most three times and stops at
\* the first attempt whose verification finds the destination: when the
\* directory is watched under its real name and the moved file is there,
\* the callback ends after one index_file call that added chunks.
C33_MoveIndexesOnce ==
    \A t \in ObserverThreads :
        (/\ h[t].pc = "moved_done"
         /\ moved_indexes(h[t].ev)
         /\ h[t].ev.dst = resolve(h[t].ev.dst)
         /\ is_file(h[t].ev.dst))
            => Cardinality({i \in DOMAIN log : log[i].kind = "add"}) <= 1

\* ------------------------------------------- reconstruct_document, outcome
\* C34: reconstruct_document called with a base id fails when no chunk is
\* stored under that base id; when chunks are, it returns a document whose doc_id is base_id
\* and whose metadata has none of the chunk-specific keys.
C34_ReconstructOutcome ==
    (api.op = "reconstruct_document" /\ "seed" \in DOMAIN api.doc_id) =>
        IF chunks_of(coll, api.doc_id) = {}
        THEN api.raised
        ELSE /\ ~api.raised
             /\ api.document.doc_id = api.doc_id
             /\ api.document.metadata \cap chunk_keys = {}

\* ------------------------------------------------------ chunker, edge cases
\* C35: under a valid configuration an empty input yields no chunk, an
\* input of fewer tokens than chunk_size yields one chunk, of chunk_index 0
\* and with the input as its text, and a processor with max_chunks set
\* emits at most max_chunks chunks.
C35_EdgeCases ==
    (api.op \in {"process_text", "process_text_max_chunks"} /\ ~api.raised) =>
        /\ api.tokens = <<>> => api.chunks = <<>>
        /\ (api.tokens # <<>> /\ Len(api.tokens) < api.chunk_size) =>
              /\ Len(api.chunks) = 1
              /\ api.chunks[1].chunk_index = 0
              /\ api.chunks[1].text = api.tokens
        /\ api.op = "process_text_max_chunks" =>
              Len(api.chunks) <= api.max_chunks

\* C35 witness: a processor with max_chunks set emitted max_chunks chunks,
\* two or more, and the last of them ends before the end of the input.
C35_Witness ==
    /\ api.op = "process_text_max_chunks" /\ ~api.raised
    /\ api.max_chunks >= 2
    /\ Len(api.chunks) = api.max_chunks
    /\ api.chunks[Len(api.chunks)].chunk_start
          + api.chunks[Len(api.chunks)].token_count < Len(api.tokens)

\* -------------------------------------------------------- FileWatcher.start
\* A file outside the watched directory, and what an index run before the
\* watcher stored for it.
outside == [root |-> "o", name |-> "a.txt"]
outside_chunks ==
    {record_of([source_path |-> outside, source |-> outside,
                chunk_index |-> 0, text |-> Alt(0, 1), last_modified |-> 0],
               "seed1")}

\* What an index run before the watcher stored for a version of a.txt that
\* is no longer on disk.
earlier_chunks ==
    add_documents({}, from_file(APath,
                                [file_of(Alt(2, MaxLen)) EXCEPT !.mtime = 0]),
                  "seed1")

\* A directory with some files in it, indexed before by a process that also
\* indexed a file outside of it; the watcher is constructed, not started.
InitStart ==
    /\ files \in [Names -> {Absent, file_of(Alt(0, MaxLen))}]
    /\ clock = 1
    /\ coll \in {a \cup b : a \in {{}, outside_chunks},
                           b \in {{}, earlier_chunks}}
    /\ seed = "seed1"
    /\ root = "w"
    /\ limit = clock
    /\ watching = FALSE
    /\ queue = <<>>
    /\ pending = {}
    /\ h = [t \in ObserverThreads |-> Idle]
    /\ log = <<>>
    /\ dirty = TRUE
    /\ last = NoRun
    /\ api = NoCall

\* A reset that leaves the collection as it is.
reset_nothing(c) == c

\* Indexer.reset_collection(): the collection is dropped and created anew.
reset_collection(c) == {}

\* FileWatcher.start up to observer.start(): reset_collection, then
\* index_directory over the watched path, then the observer is scheduled
\* and started.  The tree was written at time 1; the filesystem changes
\* again from here on.
StartObserver ==
    /\ ~watching
    /\ api.op = "none"
    /\ coll' = add_documents(reset_collection(coll), docs_of(valid_files), seed)
    /\ watching' = TRUE
    /\ api' = [op |-> "start", returned |-> FALSE, before |-> coll,
               indexed |-> add_documents({}, docs_of(valid_files), seed),
               at_return |-> {}]
    /\ limit' = MaxClock
    /\ UNCHANGED <<files, clock, seed, root, queue, pending, h, log, dirty,
                   last>>

\* FileWatcher.start: the sleep after observer.start() is over, start returns.
StartReturn ==
    /\ api.op = "start"
    /\ ~api.returned
    /\ api' = [api EXCEPT !.returned = TRUE, !.at_return = coll]
    /\ UNCHANGED <<files, clock, coll, seed, root, limit, watching, queue,
                   pending, h, log, dirty, last>>

NextStart ==
    \/ StartObserver
    \/ StartReturn
    \/ Next

SpecStart == InitStart /\ [][NextStart]_vars

\* C36 as claimed: when start returns, every chunk in the collection is one
\* that start's index_directory produced.
C36_OnlyInitialIndexAtReturn ==
    (api.op = "start" /\ api.returned) => api.at_return \subseteq api.indexed

\* C36 as amended: from the reset on, every chunk in the collection is one
\* that start's index_directory produced or one that a callback of the
\* watcher added for a watched path after the observer was started; no
\* chunk indexed before start is present unless index_directory produced
\* it again.
C36_NothingFromBeforeStart ==
    api.op = "start" =>
        \A r \in coll :
            \/ r \in api.indexed
            \/ /\ r \notin api.before
               /\ r.source \in Paths
               /\ r.source = resolve(r.source)

\* C36 witness: start has returned on a collection that held chunks of a
\* file outside the watched directory and of an earlier version of a
\* watched file; index_directory produced chunks, and the collection held
\* at the return a chunk that a callback had added.
C36_Witness ==
    /\ api.op = "start" /\ api.returned
    /\ outside_chunks \subseteq api.before
    /\ earlier_chunks \subseteq api.before
    /\ api.indexed # {}
    /\ ~(api.at_return \subseteq api.indexed)

\* ------------------------------------------------------ the pending set
\* C37: whenever no callback is running the pending-update set is empty.
C37_PendingEmptyBetweenCallbacks ==
    (\A t \in ObserverThreads : h[t].pc = "idle") => pending = {}

\* ------------------------------------------------ repeated adds in one run
\* C38: within one update run the old chunks are deleted once, index_file
\* runs at most max_attempts times, and from the delete on the collection
\* holds at most one record per chunk_index for the run's source.
C38_OneRecordPerChunk ==
    \A t \in ObserverThreads :
        h[t].pc \in {"index", "verify", "verified", "failed", "error"} =>
            /\ h[t].attempt < max_attempts
            /\ log # <<>> /\ log[1].kind = "delete"
            /\ \A i \in DOMAIN log : log[i].kind = "delete" => i = 1
            /\ Len(log) - 1 <= max_attempts
            /\ \A r1, r2 \in matching(coll, run_path(t)) :
                  r1.chunk_index = r2.chunk_index => r1 = r2

\* C38 witness: a run has ended Failed after three index_file calls, the
\* file having been rewritten between two of them, and the collection
\* holds two or more chunks of the run's source.
C38_Witness ==
    \E t \in ObserverThreads :
        /\ h[t].pc = "failed"
        /\ Len(log) = 1 + max_attempts
        /\ h[t].content # h[t].indexed.content
        /\ Cardinality(matching(coll, run_path(t))) >= 2

====
